---- MODULE Spec2Model ----
(***************************************************************************)
(* The Gemini emotion classifier of app/gemini.ts: the label normaliser,   *)
(* the tolerant reply extractors, the chunked batch orchestration and the  *)
(* process-wide model-handle cache.                                        *)
(*                                                                         *)
(* A text is a sequence of characters, each a one-character string (the    *)
(* backtick, which a TLA+ string cannot hold, is the atom BackTick).  The  *)
(* texts of this model contain no backslash, so a JSON string literal      *)
(* never holds an escape.                                                  *)
(* A JavaScript value is a record [t |-> type tag, v |-> payload].         *)
(***************************************************************************)
EXTENDS Naturals, Sequences, FiniteSets

VARIABLES
    cachedKey,     \* module-level cachedKey: a JS string or null
    cachedModel,   \* module-level cachedModel: a model handle or null
    pc,            \* per invocation: where the async function is suspended
    call,          \* per invocation: the arguments and locals of the call
    outcome,       \* per invocation: how the promise settled
    requests,      \* per invocation: the generateContent calls it has issued
    fnName,        \* the pure function last applied (function-level checks)
    fnArg,         \* its argument
    fnResult,      \* its result
    ui             \* the refs of the page: apiKey, activeMode, sentence,
                   \* excelSentences, predictions, loading, error, and the file
                   \* whose read handleExcelUpload awaits

vars == <<cachedKey, cachedModel, pc, call, outcome, requests, fnName, fnArg, fnResult, ui>>

sysVars == <<cachedKey, cachedModel, pc, call, outcome, requests>>

fnVars == <<fnName, fnArg, fnResult>>

----------------------------------------------------------------------------
(* Vocabulary *)

W_sadness == <<"s", "a", "d", "n", "e", "s", "s">>
W_joy == <<"j", "o", "y">>
W_love == <<"l", "o", "v", "e">>
W_anger == <<"a", "n", "g", "e", "r">>
W_fear == <<"f", "e", "a", "r">>
W_surprise == <<"s", "u", "r", "p", "r", "i", "s", "e">>
W_happy == <<"h", "a", "p", "p", "y">>
W_sad == <<"s", "a", "d">>
W_angry == <<"a", "n", "g", "r", "y">>
W_mad == <<"m", "a", "d">>
W_label == <<"l", "a", "b", "e", "l">>
W_sentence == <<"s", "e", "n", "t", "e", "n", "c", "e">>
W_json == <<"j", "s", "o", "n">>
W_blah == <<"b", "l", "a", "h">>
W_constructor == <<"c", "o", "n", "s", "t", "r", "u", "c", "t", "o", "r">>
W_proto == <<"_", "_", "p", "r", "o", "t", "o", "_", "_">>
W_toString == <<"t", "o", "S", "t", "r", "i", "n", "g">>
W_null == <<"n", "u", "l", "l">>
W_true == <<"t", "r", "u", "e">>
W_false == <<"f", "a", "l", "s", "e">>

----------------------------------------------------------------------------
(* JavaScript values *)

JsNull == [t |-> "null", v |-> <<>>]

JsUndefined == [t |-> "undefined", v |-> <<>>]

JsString(s) == [t |-> "string", v |-> s]

JsNumber(lexeme) == [t |-> "number", v |-> lexeme]

JsBoolean(b) == [t |-> "boolean", v |-> IF b THEN W_true ELSE W_false]

JsArray(elems) == [t |-> "array", v |-> elems]

\* members: the <<key, value>> pairs in source order
JsObject(members) == [t |-> "object", v |-> members]

\* a built-in reached through the prototype chain (a function or Object.prototype)
JsBuiltin(name) == [t |-> "builtin", v |-> name]

\* typeof x === 'string'
IsString(x) == x.t = "string"

\* x && typeof x === 'object'  (arrays are objects, null is falsy)
IsTruthyObject(x) == x.t \in {"object", "array"}

\* Array.isArray(x)
IsArray(x) == x.t = "array"

\* x[key] for a value produced by JSON.parse: the last member with that key
\* wins; arrays and plain objects inherit no property of the names read here.
GetProp(x, key) ==
    IF x.t = "object" /\ \E i \in 1..Len(x.v) : x.v[i][1] = key
    THEN LET last == CHOOSE i \in 1..Len(x.v) :
                        /\ x.v[i][1] = key
                        /\ \A j \in (i+1)..Len(x.v) : x.v[j][1] # key
         IN  x.v[last][2]
    ELSE JsUndefined

----------------------------------------------------------------------------
(* String primitives *)

\* the backtick character
BackTick == "BACKTICK"

\* the characters String.prototype.trim strips and \s matches
WhiteSpace == {" ", "\n", "\t", "\r", "\f"}

UpperCaseLetters ==
    <<"A", "B", "C", "D", "E", "F", "G", "H", "I", "J", "K", "L", "M",
      "N", "O", "P", "Q", "R", "S", "T", "U", "V", "W", "X", "Y", "Z">>

LowerCaseLetters ==
    <<"a", "b", "c", "d", "e", "f", "g", "h", "i", "j", "k", "l", "m",
      "n", "o", "p", "q", "r", "s", "t", "u", "v", "w", "x", "y", "z">>

LowerChar(c) ==
    IF \E i \in 1..26 : UpperCaseLetters[i] = c
    THEN LowerCaseLetters[CHOOSE i \in 1..26 : UpperCaseLetters[i] = c]
    ELSE c

\* String.prototype.toLowerCase
ToLowerCase(s) == [i \in 1..Len(s) |-> LowerChar(s[i])]

\* String.prototype.trim
Trim(s) ==
    IF \A i \in 1..Len(s) : s[i] \in WhiteSpace
    THEN <<>>
    ELSE LET first == CHOOSE i \in 1..Len(s) :
                         s[i] \notin WhiteSpace /\ \A j \in 1..(i-1) : s[j] \in WhiteSpace
             last  == CHOOSE i \in 1..Len(s) :
                         s[i] \notin WhiteSpace /\ \A j \in (i+1)..Len(s) : s[j] \in WhiteSpace
         IN  SubSeq(s, first, last)

\* String.prototype.split(/\s+/): the pieces between maximal whitespace runs;
\* a leading or trailing run leaves an empty piece at that end.
RECURSIVE SplitWhiteSpace(_)
SplitWhiteSpace(s) ==
    IF \A i \in 1..Len(s) : s[i] \notin WhiteSpace
    THEN <<s>>
    ELSE LET a == CHOOSE i \in 1..Len(s) :
                     s[i] \in WhiteSpace /\ \A j \in 1..(i-1) : s[j] \notin WhiteSpace
             b == CHOOSE i \in a..Len(s) :
                     /\ \A j \in a..i : s[j] \in WhiteSpace
                     /\ (i = Len(s) \/ s[i+1] \notin WhiteSpace)
         IN  <<SubSeq(s, 1, a - 1)>> \o SplitWhiteSpace(SubSeq(s, b + 1, Len(s)))

\* Array.prototype.slice(from, to) with 0-based, end-exclusive indices
Slice(s, from, to) == SubSeq(s, from + 1, IF to < Len(s) THEN to ELSE Len(s))

\* String.prototype.indexOf(c) as a 1-based position, 0 when absent
IndexOf(s, c) ==
    IF \E i \in 1..Len(s) : s[i] = c
    THEN CHOOSE i \in 1..Len(s) : s[i] = c /\ \A j \in 1..(i-1) : s[j] # c
    ELSE 0

\* String.prototype.lastIndexOf(c) as a 1-based position, 0 when absent
LastIndexOf(s, c) ==
    IF \E i \in 1..Len(s) : s[i] = c
    THEN CHOOSE i \in 1..Len(s) : s[i] = c /\ \A j \in (i+1)..Len(s) : s[j] # c
    ELSE 0

----------------------------------------------------------------------------
(* JSON.parse *)

\* the whitespace the JSON grammar allows between tokens
JsonWhiteSpace == {" ", "\n", "\t", "\r"}

Digits == {"0", "1", "2", "3", "4", "5", "6", "7", "8", "9"}

ParseFail == [ok |-> FALSE, val |-> JsNull, pos |-> 0]

ParseOk(val, pos) == [ok |-> TRUE, val |-> val, pos |-> pos]

\* the first position at or after i that holds no JSON whitespace
SkipWs(s, i) ==
    CHOOSE j \in i..(Len(s) + 1) :
        /\ \A k \in i..(j - 1) : s[k] \in JsonWhiteSpace
        /\ (j = Len(s) + 1 \/ s[j] \notin JsonWhiteSpace)

\* the first position at or after i that holds no digit
SkipDigits(s, i) ==
    CHOOSE j \in i..(Len(s) + 1) :
        /\ \A k \in i..(j - 1) : s[k] \in Digits
        /\ (j = Len(s) + 1 \/ s[j] \notin Digits)

At(s, i) == IF i >= 1 /\ i <= Len(s) THEN s[i] ELSE "<eof>"

\* a string literal whose opening quote is at i - 1 and closing quote at close
StringUpTo(s, i, close) ==
    IF \E k \in i..(close - 1) : s[k] \in {"\n", "\t", "\r", "\f"}
    THEN ParseFail
    ELSE ParseOk(JsString(SubSeq(s, i, close - 1)), close + 1)

ParseString(s, i) ==
    IF \E j \in i..Len(s) : s[j] = "\""
    THEN StringUpTo(s, i, CHOOSE j \in i..Len(s) :
                              s[j] = "\"" /\ \A k \in i..(j - 1) : s[k] # "\"")
    ELSE ParseFail

\* number = -? (0 | [1-9][0-9]*) (. [0-9]+)? ([eE] [+-]? [0-9]+)?
\* the exponent, where the number's text so far ends before position e
NumberExponent(s, i, e) ==
    IF At(s, e) \in {"e", "E"}
    THEN IF At(s, e + 1) \in {"+", "-"}
         THEN IF SkipDigits(s, e + 2) > e + 2
              THEN ParseOk(JsNumber(SubSeq(s, i, SkipDigits(s, e + 2) - 1)), SkipDigits(s, e + 2))
              ELSE ParseFail
         ELSE IF SkipDigits(s, e + 1) > e + 1
              THEN ParseOk(JsNumber(SubSeq(s, i, SkipDigits(s, e + 1) - 1)), SkipDigits(s, e + 1))
              ELSE ParseFail
    ELSE ParseOk(JsNumber(SubSeq(s, i, e - 1)), e)

\* the fraction, where the integer part ends before position d
NumberFraction(s, i, d) ==
    IF At(s, d) = "."
    THEN IF SkipDigits(s, d + 1) > d + 1
         THEN NumberExponent(s, i, SkipDigits(s, d + 1))
         ELSE ParseFail
    ELSE NumberExponent(s, i, d)

\* the integer part, which starts at position d
NumberInteger(s, i, d) ==
    IF At(s, d) = "0" THEN NumberFraction(s, i, d + 1)
    ELSE IF At(s, d) \in Digits THEN NumberFraction(s, i, SkipDigits(s, d))
    ELSE ParseFail

ParseNumber(s, i) == NumberInteger(s, i, IF At(s, i) = "-" THEN i + 1 ELSE i)

ParseLiteral(s, i) ==
    IF i + 3 <= Len(s) /\ SubSeq(s, i, i + 3) = W_null THEN ParseOk(JsNull, i + 4)
    ELSE IF i + 3 <= Len(s) /\ SubSeq(s, i, i + 3) = W_true THEN ParseOk(JsBoolean(TRUE), i + 4)
    ELSE IF i + 4 <= Len(s) /\ SubSeq(s, i, i + 4) = W_false THEN ParseOk(JsBoolean(FALSE), i + 5)
    ELSE ParseFail

RECURSIVE ParseValue(_, _)
RECURSIVE ParseElements(_, _, _)
RECURSIVE ParseMembers(_, _, _)

\* after an array element: a comma and more elements, or the closing bracket
ElementEnd(s, acc, next) ==
    IF At(s, next) = "," THEN ParseElements(s, next + 1, acc)
    ELSE IF At(s, next) = "]" THEN ParseOk(JsArray(acc), next + 1)
    ELSE ParseFail

ElementParsed(s, acc, r) ==
    IF r.ok THEN ElementEnd(s, Append(acc, r.val), SkipWs(s, r.pos)) ELSE ParseFail

\* the rest of an array whose next element starts at or after i
ParseElements(s, i, acc) == ElementParsed(s, acc, ParseValue(s, i))

\* after an object member: a comma and more members, or the closing brace
MemberEnd(s, acc, next) ==
    IF At(s, next) = "," THEN ParseMembers(s, next + 1, acc)
    ELSE IF At(s, next) = "}" THEN ParseOk(JsObject(acc), next + 1)
    ELSE ParseFail

MemberParsed(s, acc, key, r) ==
    IF r.ok THEN MemberEnd(s, Append(acc, <<key.val.v, r.val>>), SkipWs(s, r.pos))
    ELSE ParseFail

MemberKeyParsed(s, acc, key) ==
    IF key.ok /\ At(s, SkipWs(s, key.pos)) = ":"
    THEN MemberParsed(s, acc, key, ParseValue(s, SkipWs(s, key.pos) + 1))
    ELSE ParseFail

MemberAt(s, acc, k) ==
    IF At(s, k) = "\"" THEN MemberKeyParsed(s, acc, ParseString(s, k + 1)) ELSE ParseFail

\* the rest of an object whose next member starts at or after i
ParseMembers(s, i, acc) == MemberAt(s, acc, SkipWs(s, i))

\* the value that starts at position j
ValueAt(s, j) ==
    IF At(s, j) = "\"" THEN ParseString(s, j + 1)
    ELSE IF At(s, j) = "{"
         THEN IF At(s, SkipWs(s, j + 1)) = "}"
              THEN ParseOk(JsObject(<<>>), SkipWs(s, j + 1) + 1)
              ELSE ParseMembers(s, j + 1, <<>>)
    ELSE IF At(s, j) = "["
         THEN IF At(s, SkipWs(s, j + 1)) = "]"
              THEN ParseOk(JsArray(<<>>), SkipWs(s, j + 1) + 1)
              ELSE ParseElements(s, j + 1, <<>>)
    ELSE IF At(s, j) \in Digits \cup {"-"} THEN ParseNumber(s, j)
    ELSE ParseLiteral(s, j)

\* the value that starts at or after position i
ParseValue(s, i) == ValueAt(s, SkipWs(s, i))

\* a whole text is one value with nothing but whitespace after it
WholeText(s, r) ==
    IF r.ok /\ SkipWs(s, r.pos) = Len(s) + 1
    THEN [ok |-> TRUE, val |-> r.val]
    ELSE [ok |-> FALSE, val |-> JsNull]

\* JSON.parse(text): ok is FALSE where JSON.parse throws a SyntaxError
JsonParse(s) == WholeText(s, ParseValue(s, 1))

----------------------------------------------------------------------------
(* gemini.ts: constants *)

LABELS == {W_sadness, W_joy, W_love, W_anger, W_fear, W_surprise}

MAX_BATCH_SIZE == 4

\* the object literal LABEL_SYNONYMS as its <<key, value>> entries
LABEL_SYNONYMS ==
    { <<W_happy, W_joy>>,
      <<<<"h", "a", "p", "p", "i", "n", "e", "s", "s">>, W_joy>>,
      <<<<"j", "o", "y", "f", "u", "l">>, W_joy>>,
      <<<<"e", "c", "s", "t", "a", "t", "i", "c">>, W_joy>>,
      <<W_sad, W_sadness>>,
      <<<<"d", "e", "p", "r", "e", "s", "s", "e", "d">>, W_sadness>>,
      <<W_anger, W_anger>>,
      <<W_angry, W_anger>>,
      <<W_mad, W_anger>>,
      <<<<"f", "u", "r", "i", "o", "u", "s">>, W_anger>>,
      <<<<"a", "f", "r", "a", "i", "d">>, W_fear>>,
      <<<<"f", "e", "a", "r", "f", "u", "l">>, W_fear>>,
      <<<<"s", "c", "a", "r", "e", "d">>, W_fear>>,
      <<<<"t", "e", "r", "r", "i", "f", "i", "e", "d">>, W_fear>>,
      <<W_surprise, W_surprise>>,
      <<<<"s", "u", "r", "p", "r", "i", "s", "e", "d">>, W_surprise>>,
      <<<<"s", "h", "o", "c", "k", "e", "d">>, W_surprise>>,
      <<<<"a", "s", "t", "o", "n", "i", "s", "h", "e", "d">>, W_surprise>>,
      <<W_love, W_love>>,
      <<<<"l", "o", "v", "e", "d">>, W_love>>,
      <<<<"l", "o", "v", "i", "n", "g">>, W_love>> }

SynonymKeys == {e[1] : e \in LABEL_SYNONYMS}

\* property names every plain object inherits from Object.prototype
\* (those the corpus of this model can spell)
ObjectPrototypeKeys == {W_constructor, W_proto, W_toString}

\* LABEL_SYNONYMS[candidate]: an own entry, else what the prototype chain of
\* the object literal yields, else undefined
SynonymLookup(candidate) ==
    IF candidate \in SynonymKeys
    THEN JsString((CHOOSE e \in LABEL_SYNONYMS : e[1] = candidate)[2])
    ELSE IF candidate \in ObjectPrototypeKeys THEN JsBuiltin(candidate)
    ELSE JsUndefined

\* a ?? b
Coalesce(a, b) == IF a.t \in {"null", "undefined"} THEN b ELSE a

----------------------------------------------------------------------------
(* gemini.ts: reply extraction and label normalisation *)

\* whether a code-fence marker (three backticks) starts at position i
FenceAt(s, i) ==
    i + 2 <= Len(s) /\ s[i] = BackTick /\ s[i + 1] = BackTick /\ s[i + 2] = BackTick

\* a marker test that never sees the json tag
TaggedFenceNever(s, f) == FALSE

\* whether the marker at position f carries the json tag, in any letter case
TaggedFence(s, f) == f + 6 <= Len(s) /\ ToLowerCase(SubSeq(s, f + 3, f + 6)) = W_json

\* raw.replace(/<fence>(?:json)?/gi, ''): every marker, with the json tag when
\* it follows, is removed, scanning left to right
RECURSIVE RemoveFences(_, _)
RemoveFenceAt(s, i, f) ==
    SubSeq(s, i, f - 1) \o RemoveFences(s, IF TaggedFence(s, f) THEN f + 7 ELSE f + 3)

RemoveFences(s, i) ==
    IF \E f \in i..Len(s) : FenceAt(s, f)
    THEN RemoveFenceAt(s, i, CHOOSE f \in i..Len(s) :
                                 FenceAt(s, f) /\ \A g \in i..(f - 1) : ~FenceAt(s, g))
    ELSE SubSeq(s, i, Len(s))

sanitizeModelText(raw) == Trim(RemoveFences(raw, 1))

ValueOrNull(r) == IF r.ok THEN r.val ELSE JsNull

\* JSON.parse failures are swallowed into null
tryParseJson(text) == ValueOrNull(JsonParse(text))

\* from the "{" at position open to the first "}" after it
BraceMatchFrom(s, open) ==
    IF open # 0 /\ \E j \in (open + 1)..Len(s) : s[j] = "}"
    THEN SubSeq(s, open, CHOOSE j \in (open + 1)..Len(s) :
                             s[j] = "}" /\ \A k \in (open + 1)..(j - 1) : s[k] # "}")
    ELSE <<>>

\* sanitized.match(/\{[\s\S]*?\}/): from the first "{" to the first "}" after
\* it; <<>> when there is no match
FirstBraceMatch(s) == BraceMatchFrom(s, IndexOf(s, "{"))

\* x.label when x is an object and the field is a string, else undefined
StringLabelOf(x) ==
    IF IsTruthyObject(x) /\ IsString(GetProp(x, W_label))
    THEN GetProp(x, W_label)
    ELSE JsUndefined

\* extractLabelCandidate whose last resort is the whole sanitized text
LabelCandidateWholeText(sanitized, direct, jsonMatch, parsed) ==
    IF sanitized = <<>> THEN <<>>
    ELSE IF IsString(direct) THEN direct.v
    ELSE IF IsString(StringLabelOf(direct)) THEN StringLabelOf(direct).v
    ELSE IF jsonMatch # <<>> /\ IsString(StringLabelOf(parsed)) THEN StringLabelOf(parsed).v
    ELSE sanitized

\* extractLabelCandidate that takes no label from an object parsed directly
LabelCandidateScanOnly(sanitized, direct, jsonMatch, parsed) ==
    IF sanitized = <<>> THEN <<>>
    ELSE IF IsString(direct) THEN direct.v
    ELSE IF jsonMatch # <<>> /\ IsString(StringLabelOf(parsed)) THEN StringLabelOf(parsed).v
    ELSE SplitWhiteSpace(sanitized)[1]

\* extractLabelCandidate once the text is sanitized: sanitized parsed as a
\* whole (direct), then its first brace match parsed (parsed), then its first
\* token
LabelCandidate(sanitized, direct, jsonMatch, parsed) ==
    IF sanitized = <<>> THEN <<>>
    ELSE IF IsString(direct) THEN direct.v
    ELSE IF IsString(StringLabelOf(direct)) THEN StringLabelOf(direct).v
    ELSE IF jsonMatch # <<>> /\ IsString(StringLabelOf(parsed)) THEN StringLabelOf(parsed).v
    ELSE SplitWhiteSpace(sanitized)[1]

LabelCandidateOf(sanitized) ==
    LabelCandidate(sanitized, tryParseJson(sanitized), FirstBraceMatch(sanitized),
                   tryParseJson(FirstBraceMatch(sanitized)))

extractLabelCandidate(text) == LabelCandidateOf(sanitizeModelText(text))

\* extractBatchCandidates without the retry on the bracket slice
BatchCandidatesDirectOnly(sanitized, parsed, start, end, retry) ==
    IF sanitized = <<>> THEN JsNull
    ELSE IF IsArray(parsed) THEN parsed
    ELSE JsNull

\* extractBatchCandidates once the text is sanitized: sanitized parsed as a
\* whole (parsed), then its slice from the first "[" to the last "]" (retry)
BatchCandidates(sanitized, parsed, start, end, retry) ==
    IF sanitized = <<>> THEN JsNull
    ELSE IF IsArray(parsed) THEN parsed
    ELSE IF start # 0 /\ end # 0 /\ end > start /\ IsArray(retry) THEN retry
    ELSE JsNull

BatchSlice(sanitized, start, end) ==
    IF start # 0 /\ end > start THEN SubSeq(sanitized, start, end) ELSE <<>>

BatchCandidatesOf(sanitized) ==
    BatchCandidates(sanitized, tryParseJson(sanitized),
                    IndexOf(sanitized, "["), LastIndexOf(sanitized, "]"),
                    tryParseJson(BatchSlice(sanitized, IndexOf(sanitized, "["),
                                            LastIndexOf(sanitized, "]"))))

extractBatchCandidates(text) == BatchCandidatesOf(sanitizeModelText(text))

\* normalizeLabel without the test against LABELS
LabelOfCandidateSynonymsOnly(candidate) ==
    IF candidate = <<>> THEN JsNull
    ELSE Coalesce(SynonymLookup(candidate), JsNull)

\* normalizeLabel from the candidate token on
LabelOfCandidate(candidate) ==
    IF candidate = <<>> THEN JsNull
    ELSE IF candidate \in LABELS THEN JsString(candidate)
    ELSE Coalesce(SynonymLookup(candidate), JsNull)

\* normalizeLabel that looks up the whole cleaned text
LabelOfCleanedWhole(cleaned) ==
    IF cleaned = <<>> THEN JsNull ELSE LabelOfCandidate(cleaned)

LabelOfCleaned(cleaned) ==
    IF cleaned = <<>> THEN JsNull
    ELSE LabelOfCandidate(Trim(SplitWhiteSpace(cleaned)[1]))

normalizeLabel(raw) == LabelOfCleaned(Trim(ToLowerCase(raw)))

----------------------------------------------------------------------------
(* gemini.ts: the model-handle cache *)

ERR_API_KEY == "Please enter your Gemini API key before running an analysis."

ERR_EMPTY_SENTENCE == "Sentence must not be empty."

ERR_NO_SENTENCES == "At least one sentence is required."

ERR_BATCH_PARSE == "Unable to parse batch response from Gemini."

\* the rejection of generateContent itself, passed on as it is
ERR_UPSTREAM == "generateContent failed"

\* new GoogleGenerativeAI(key).getGenerativeModel(...): a handle bound to key
GenerativeModel(key) == [t |-> "GenerativeModel", v |-> key]

\* normalizeApiKey that tests the key before trimming it
normalizeApiKeyUntrimmed(candidate) ==
    [threw |-> candidate = <<>>, value |-> Trim(candidate)]

\* normalizeApiKey: the trimmed key, or a throw when it is empty
normalizeApiKey(candidate) ==
    [threw |-> Trim(candidate) = <<>>, value |-> Trim(candidate)]

\* ensureModel that returns whatever handle is cached, whatever its key
EnsureModelForAnyKey(normalizedKey, cKey, cModel) ==
    IF normalizedKey.threw
    THEN [threw |-> TRUE, model |-> JsNull, constructed |-> FALSE,
          cachedKey |-> cKey, cachedModel |-> cModel]
    ELSE IF cModel # JsNull
    THEN [threw |-> FALSE, model |-> cModel, constructed |-> FALSE,
          cachedKey |-> cKey, cachedModel |-> cModel]
    ELSE [threw |-> FALSE,
          model |-> GenerativeModel(normalizedKey.value),
          constructed |-> TRUE,
          cachedKey |-> JsString(normalizedKey.value),
          cachedModel |-> GenerativeModel(normalizedKey.value)]

\* ensureModel that constructs a handle on every call
EnsureModelForEveryCall(normalizedKey, cKey, cModel) ==
    IF normalizedKey.threw
    THEN [threw |-> TRUE, model |-> JsNull, constructed |-> FALSE,
          cachedKey |-> cKey, cachedModel |-> cModel]
    ELSE [threw |-> FALSE,
          model |-> GenerativeModel(normalizedKey.value),
          constructed |-> TRUE,
          cachedKey |-> JsString(normalizedKey.value),
          cachedModel |-> GenerativeModel(normalizedKey.value)]

\* ensureModel against the cache <<cKey, cModel>>: the handle it returns and
\* the cache it leaves
EnsureModelFor(normalizedKey, cKey, cModel) ==
    IF normalizedKey.threw
    THEN [threw |-> TRUE, model |-> JsNull, constructed |-> FALSE,
          cachedKey |-> cKey, cachedModel |-> cModel]
    ELSE IF cModel # JsNull /\ cKey = JsString(normalizedKey.value)
    THEN [threw |-> FALSE, model |-> cModel, constructed |-> FALSE,
          cachedKey |-> cKey, cachedModel |-> cModel]
    ELSE [threw |-> FALSE,
          model |-> GenerativeModel(normalizedKey.value),
          constructed |-> TRUE,
          cachedKey |-> JsString(normalizedKey.value),
          cachedModel |-> GenerativeModel(normalizedKey.value)]

ensureModel(apiKey, cKey, cModel) == EnsureModelFor(normalizeApiKey(apiKey), cKey, cModel)

----------------------------------------------------------------------------
(* gemini.ts: classification *)

\* what generateContent resolves to: the reply text and candidates[0].finishReason
\* (undefined when the reply carries none), or a rejection
Reply(text, finishReason) == [failed |-> FALSE, text |-> text, finishReason |-> finishReason]

UpstreamFailure == [failed |-> TRUE, text |-> <<>>, finishReason |-> JsUndefined]

\* a generateContent call that has not been answered yet
NoReply == [failed |-> FALSE, text |-> <<>>, finishReason |-> JsBuiltin(<<>>)]

\* classifyEmotion that normalizes the reply text as it is
classifyEmotionResultUnextracted(trimmed, reply) ==
    [sentence        |-> trimmed,
     predictedEmotion |-> normalizeLabel(reply.text),
     doneReason      |-> Coalesce(reply.finishReason, JsNull),
     rawResponse     |-> reply.text]

\* classifyEmotion after its await: the result built from the reply
classifyEmotionResult(trimmed, reply) ==
    [sentence        |-> trimmed,
     predictedEmotion |-> normalizeLabel(extractLabelCandidate(reply.text)),
     doneReason      |-> Coalesce(reply.finishReason, JsNull),
     rawResponse     |-> reply.text]

\* function* chunkSentences: the slices it yields, in order
RECURSIVE ChunksFrom(_, _, _)
ChunksFrom(sentences, maxSize, index) ==
    IF index < Len(sentences)
    THEN <<Slice(sentences, index, index + maxSize)>>
             \o ChunksFrom(sentences, maxSize, index + maxSize)
    ELSE <<>>

\* chunkSentences that yields full chunks only
RECURSIVE WholeChunksFrom(_, _, _)
WholeChunksFrom(sentences, maxSize, index) ==
    IF index + maxSize <= Len(sentences)
    THEN <<Slice(sentences, index, index + maxSize)>>
             \o WholeChunksFrom(sentences, maxSize, index + maxSize)
    ELSE <<>>

chunkSentencesWholeOnly(sentences, maxSize) == WholeChunksFrom(sentences, maxSize, 0)

\* chunkSentences that takes one sentence more than maxSize into each chunk
chunkSentencesOversize(sentences, maxSize) == ChunksFrom(sentences, maxSize + 1, 0)

chunkSentences(sentences, maxSize) == ChunksFrom(sentences, maxSize, 0)

\* an index clamped to the last element of the array
ElementAtClamped(parsed, index) ==
    IF Len(parsed.v) = 0 THEN JsUndefined
    ELSE IF index + 1 <= Len(parsed.v) THEN parsed.v[index + 1]
    ELSE parsed.v[Len(parsed.v)]

\* parsed[index] for a 0-based index: undefined past the end
ElementAt(parsed, index) ==
    IF index + 1 <= Len(parsed.v) THEN parsed.v[index + 1] ELSE JsUndefined

\* the label text classifyBatchChunk reads from one entry of the reply array
EntryLabel(entry) ==
    IF IsTruthyObject(entry) /\ IsString(GetProp(entry, W_label))
    THEN GetProp(entry, W_label).v
    ELSE <<>>

\* classifyBatchChunk that leaves the finishReason out of its results
ChunkResultsWithoutReason(sentences, reply, parsed) ==
    IF ~IsArray(parsed)
    THEN [threw |-> TRUE, results |-> <<>>]
    ELSE [threw |-> FALSE,
          results |->
              [i \in 1..Len(sentences) |->
                  [sentence        |-> sentences[i],
                   predictedEmotion |-> normalizeLabel(EntryLabel(ElementAt(parsed, i - 1))),
                   doneReason      |-> JsNull,
                   rawResponse     |-> reply.text]]]

\* classifyBatchChunk that looks for the entry naming the sentence
ChunkResultsBySentence(sentences, reply, parsed) ==
    IF ~IsArray(parsed)
    THEN [threw |-> TRUE, results |-> <<>>]
    ELSE [threw |-> FALSE,
          results |->
              [i \in 1..Len(sentences) |->
                  [sentence        |-> sentences[i],
                   predictedEmotion |->
                       IF \E j \in 1..Len(parsed.v) :
                              GetProp(parsed.v[j], W_sentence) = JsString(sentences[i])
                       THEN normalizeLabel(EntryLabel(parsed.v[
                                CHOOSE j \in 1..Len(parsed.v) :
                                    GetProp(parsed.v[j], W_sentence) = JsString(sentences[i])]))
                       ELSE JsNull,
                   doneReason      |-> Coalesce(reply.finishReason, JsNull),
                   rawResponse     |-> reply.text]]]

\* classifyBatchChunk from the extracted candidates on
ChunkResults(sentences, reply, parsed) ==
    IF ~IsArray(parsed)
    THEN [threw |-> TRUE, results |-> <<>>]
    ELSE [threw |-> FALSE,
          results |->
              [i \in 1..Len(sentences) |->
                  [sentence        |-> sentences[i],
                   predictedEmotion |-> normalizeLabel(EntryLabel(ElementAt(parsed, i - 1))),
                   doneReason      |-> Coalesce(reply.finishReason, JsNull),
                   rawResponse     |-> reply.text]]]

\* classifyBatchChunk after its await: a throw, or one result per sentence
classifyBatchChunk(sentences, reply) ==
    ChunkResults(sentences, reply, extractBatchCandidates(reply.text))

\* sentences.map((s) => s.trim()) without the filter
CleanSentencesKeepBlank(sentences) == [i \in 1..Len(sentences) |-> Trim(sentences[i])]

\* sentences.map((s) => s.trim()).filter(Boolean)
RECURSIVE CleanSentences(_)
CleanSentences(sentences) ==
    IF sentences = <<>> THEN <<>>
    ELSE (IF Trim(Head(sentences)) = <<>> THEN <<>> ELSE <<Trim(Head(sentences))>>)
             \o CleanSentences(Tail(sentences))

----------------------------------------------------------------------------
(* The invocations *)

\* the invocations that may be in flight together
Procs == {1, 2}

\* one invocation at a time: each call is awaited before the next is made
SeqProcs == {1}

\* the frame of an invocation; constructed records whether its ensureModel
\* ran new GoogleGenerativeAI(...).getGenerativeModel(...)
NoCall ==
    [fn |-> "none", sentence |-> <<>>, sentences |-> <<>>, apiKey |-> <<>>,
     cleaned |-> <<>>, model |-> JsNull, constructed |-> FALSE, chunkNo |-> 0,
     aggregated |-> <<>>]

Pending == [status |-> "pending", value |-> <<>>, error |-> ""]

Fulfilled(results) == [status |-> "fulfilled", value |-> results, error |-> ""]

Rejected(message) == [status |-> "rejected", value |-> <<>>, error |-> message]

\* model.generateContent(prompt) issued through the handle for the sentences
Request(model, sentences) == [model |-> model, sentences |-> sentences, reply |-> NoReply]

\* the requests of invocation p with the last one answered
Answered(p, reply) ==
    [requests[p] EXCEPT ![Len(requests[p])].reply = reply]

\* the refs as the page's setup leaves them; the error ref holds a message or
\* "null", upload holds the cells of the file being read, if any
UiInit ==
    [apiKey |-> <<>>, activeMode |-> "single", sentence |-> <<>>,
     excelSentences |-> <<>>, predictions |-> <<>>, loading |-> FALSE,
     error |-> "null", upload |-> <<>>]

Init ==
    /\ ui = UiInit
    /\ cachedKey = JsNull
    /\ cachedModel = JsNull
    /\ pc = [p \in Procs |-> "idle"]
    /\ call = [p \in Procs |-> NoCall]
    /\ outcome = [p \in Procs |-> Pending]
    /\ requests = [p \in Procs |-> <<>>]
    /\ fnName = "none"
    /\ fnArg = <<>>
    /\ fnResult = <<>>

\* a rejection that empties the cache
RejectAtEntryClearingCache(p, args, message) ==
    /\ pc' = [pc EXCEPT ![p] = "done"]
    /\ call' = [call EXCEPT ![p] = args]
    /\ outcome' = [outcome EXCEPT ![p] = Rejected(message)]
    /\ requests' = [requests EXCEPT ![p] = <<>>]
    /\ cachedKey' = JsNull
    /\ cachedModel' = JsNull

\* the call fails before its first await and leaves the cache alone
RejectAtEntry(p, args, message) ==
    /\ pc' = [pc EXCEPT ![p] = "done"]
    /\ call' = [call EXCEPT ![p] = args]
    /\ outcome' = [outcome EXCEPT ![p] = Rejected(message)]
    /\ requests' = [requests EXCEPT ![p] = <<>>]
    /\ UNCHANGED <<cachedKey, cachedModel>>

\* the call obtained its handle and suspends on its first generateContent
SuspendOnFirstRequest(p, args, em, where, firstSentences) ==
    /\ cachedKey' = em.cachedKey
    /\ cachedModel' = em.cachedModel
    /\ pc' = [pc EXCEPT ![p] = where]
    /\ call' = [call EXCEPT ![p] = [args EXCEPT !.model = em.model,
                                                !.constructed = em.constructed]]
    /\ outcome' = [outcome EXCEPT ![p] = Pending]
    /\ requests' = [requests EXCEPT ![p] = <<Request(em.model, firstSentences)>>]

\* the caller takes the settled promise; the invocation's frame is gone
ReturnToCaller(p) ==
    /\ pc[p] = "done"
    /\ pc' = [pc EXCEPT ![p] = "idle"]
    /\ call' = [call EXCEPT ![p] = NoCall]
    /\ outcome' = [outcome EXCEPT ![p] = Pending]
    /\ requests' = [requests EXCEPT ![p] = <<>>]
    /\ UNCHANGED <<cachedKey, cachedModel, fnVars, ui>>

\* the arguments and locals of a classifyEmotion call
SingleArgs(sentence, apiKey) ==
    [NoCall EXCEPT !.fn = "classifyEmotion", !.sentence = sentence, !.apiKey = apiKey,
                   !.cleaned = IF Trim(sentence) = <<>> THEN <<>> ELSE <<Trim(sentence)>>]

ClassifyEmotionEntry(p, args, em) ==
    IF args.cleaned = <<>>
    THEN RejectAtEntry(p, args, ERR_EMPTY_SENTENCE)
    ELSE IF em.threw
    THEN RejectAtEntry(p, args, ERR_API_KEY)
    ELSE SuspendOnFirstRequest(p, args, em, "awaitSingle", args.cleaned)

\* classifyEmotion(sentence, apiKey), up to its first await
classifyEmotion(p, sentence, apiKey) ==
    /\ pc[p] = "idle"
    /\ ClassifyEmotionEntry(p, SingleArgs(sentence, apiKey),
                            ensureModel(apiKey, cachedKey, cachedModel))
    /\ UNCHANGED <<fnVars, ui>>

\* classifyEmotion resumed by the reply to its generateContent call
classifyEmotionResume(p, reply) ==
    /\ pc[p] = "awaitSingle"
    /\ pc' = [pc EXCEPT ![p] = "done"]
    /\ requests' = [requests EXCEPT ![p] = Answered(p, reply)]
    /\ outcome' = [outcome EXCEPT ![p] =
           IF reply.failed
           THEN Rejected(ERR_UPSTREAM)
           ELSE Fulfilled(<<classifyEmotionResult(call[p].cleaned[1], reply)>>)]
    /\ UNCHANGED <<cachedKey, cachedModel, call, fnVars, ui>>

\* the arguments and locals of a classifyEmotionBatch call
BatchArgs(sentences, apiKey) ==
    [NoCall EXCEPT !.fn = "classifyEmotionBatch", !.sentences = sentences,
                   !.apiKey = apiKey, !.cleaned = CleanSentences(sentences)]

ClassifyEmotionBatchEntry(p, args, em) ==
    IF args.cleaned = <<>>
    THEN RejectAtEntry(p, args, ERR_NO_SENTENCES)
    ELSE IF em.threw
    THEN RejectAtEntry(p, args, ERR_API_KEY)
    ELSE SuspendOnFirstRequest(p, [args EXCEPT !.chunkNo = 1], em, "awaitChunk",
                               chunkSentences(args.cleaned, MAX_BATCH_SIZE)[1])

\* classifyEmotionBatch(sentences, apiKey), up to the await of its first chunk
classifyEmotionBatch(p, sentences, apiKey) ==
    /\ pc[p] = "idle"
    /\ ClassifyEmotionBatchEntry(p, BatchArgs(sentences, apiKey),
                                 ensureModel(apiKey, cachedKey, cachedModel))
    /\ UNCHANGED <<fnVars, ui>>

\* a loop that swallows the throw of classifyBatchChunk and goes on with the
\* next chunk
BatchLoopStepSkipsFailure(p, reply, chunks, k, r) ==
    IF reply.failed
    THEN /\ pc' = [pc EXCEPT ![p] = "done"]
         /\ outcome' = [outcome EXCEPT ![p] = Rejected(ERR_UPSTREAM)]
         /\ requests' = [requests EXCEPT ![p] = Answered(p, reply)]
         /\ UNCHANGED call
    ELSE IF k < Len(chunks)
    THEN /\ pc' = pc
         /\ outcome' = outcome
         /\ call' = [call EXCEPT ![p].aggregated = call[p].aggregated \o r.results,
                                 ![p].chunkNo = k + 1]
         /\ requests' = [requests EXCEPT ![p] =
                Append(Answered(p, reply), Request(call[p].model, chunks[k + 1]))]
    ELSE /\ pc' = [pc EXCEPT ![p] = "done"]
         /\ outcome' = [outcome EXCEPT ![p] = Fulfilled(call[p].aggregated \o r.results)]
         /\ call' = [call EXCEPT ![p].aggregated = call[p].aggregated \o r.results]
         /\ requests' = [requests EXCEPT ![p] = Answered(p, reply)]

\* a loop that sends a chunk once more when its invocation fails
BatchLoopStepRetries(p, reply, chunks, k, r) ==
    IF reply.failed /\ Len(requests[p]) = k
    THEN /\ pc' = pc
         /\ outcome' = outcome
         /\ requests' = [requests EXCEPT ![p] =
                Append(Answered(p, reply), Request(call[p].model, chunks[k]))]
         /\ UNCHANGED call
    ELSE IF reply.failed \/ r.threw
    THEN /\ pc' = [pc EXCEPT ![p] = "done"]
         /\ outcome' = [outcome EXCEPT ![p] =
                Rejected(IF reply.failed THEN ERR_UPSTREAM ELSE ERR_BATCH_PARSE)]
         /\ requests' = [requests EXCEPT ![p] = Answered(p, reply)]
         /\ UNCHANGED call
    ELSE IF k < Len(chunks)
    THEN /\ pc' = pc
         /\ outcome' = outcome
         /\ call' = [call EXCEPT ![p].aggregated = call[p].aggregated \o r.results,
                                 ![p].chunkNo = k + 1]
         /\ requests' = [requests EXCEPT ![p] =
                Append(Answered(p, reply), Request(call[p].model, chunks[k + 1]))]
    ELSE /\ pc' = [pc EXCEPT ![p] = "done"]
         /\ outcome' = [outcome EXCEPT ![p] = Fulfilled(call[p].aggregated \o r.results)]
         /\ call' = [call EXCEPT ![p].aggregated = call[p].aggregated \o r.results]
         /\ requests' = [requests EXCEPT ![p] = Answered(p, reply)]

\* a loop that takes the handle for the next chunk from the cache
BatchLoopStepThroughCache(p, reply, chunks, k, r) ==
    IF reply.failed \/ r.threw
    THEN /\ pc' = [pc EXCEPT ![p] = "done"]
         /\ outcome' = [outcome EXCEPT ![p] =
                Rejected(IF reply.failed THEN ERR_UPSTREAM ELSE ERR_BATCH_PARSE)]
         /\ requests' = [requests EXCEPT ![p] = Answered(p, reply)]
         /\ UNCHANGED call
    ELSE IF k < Len(chunks)
    THEN /\ pc' = pc
         /\ outcome' = outcome
         /\ call' = [call EXCEPT ![p].aggregated = call[p].aggregated \o r.results,
                                 ![p].chunkNo = k + 1]
         /\ requests' = [requests EXCEPT ![p] =
                Append(Answered(p, reply), Request(cachedModel, chunks[k + 1]))]
    ELSE /\ pc' = [pc EXCEPT ![p] = "done"]
         /\ outcome' = [outcome EXCEPT ![p] = Fulfilled(call[p].aggregated \o r.results)]
         /\ call' = [call EXCEPT ![p].aggregated = call[p].aggregated \o r.results]
         /\ requests' = [requests EXCEPT ![p] = Answered(p, reply)]

\* the for-of loop of classifyEmotionBatch resumed with the outcome r of
\* chunk k: a throw ends the call; else the results are pushed and the next
\* chunk is dispatched, or the call returns
BatchLoopStep(p, reply, chunks, k, r) ==
    IF reply.failed \/ r.threw
    THEN /\ pc' = [pc EXCEPT ![p] = "done"]
         /\ outcome' = [outcome EXCEPT ![p] =
                Rejected(IF reply.failed THEN ERR_UPSTREAM ELSE ERR_BATCH_PARSE)]
         /\ requests' = [requests EXCEPT ![p] = Answered(p, reply)]
         /\ UNCHANGED call
    ELSE IF k < Len(chunks)
    THEN /\ pc' = pc
         /\ outcome' = outcome
         /\ call' = [call EXCEPT ![p].aggregated = call[p].aggregated \o r.results,
                                 ![p].chunkNo = k + 1]
         /\ requests' = [requests EXCEPT ![p] =
                Append(Answered(p, reply), Request(call[p].model, chunks[k + 1]))]
    ELSE /\ pc' = [pc EXCEPT ![p] = "done"]
         /\ outcome' = [outcome EXCEPT ![p] = Fulfilled(call[p].aggregated \o r.results)]
         /\ call' = [call EXCEPT ![p].aggregated = call[p].aggregated \o r.results]
         /\ requests' = [requests EXCEPT ![p] = Answered(p, reply)]

BatchLoopResume(p, reply, chunks, k) ==
    BatchLoopStep(p, reply, chunks, k, classifyBatchChunk(chunks[k], reply))

\* classifyEmotionBatch resumed by the reply to the chunk in flight
classifyBatchChunkResume(p, reply) ==
    /\ pc[p] = "awaitChunk"
    /\ BatchLoopResume(p, reply, chunkSentences(call[p].cleaned, MAX_BATCH_SIZE),
                       call[p].chunkNo)
    /\ UNCHANGED <<cachedKey, cachedModel, fnVars, ui>>

----------------------------------------------------------------------------
(* Inputs *)

Quoted(w) == <<"\"">> \o w \o <<"\"">>

\* {"label": value}
LabelObject(value) == <<"{">> \o Quoted(W_label) \o <<":", " ">> \o value \o <<"}">>

\* {"sentence": "s", "label": "w"}
Entry(s, w) ==
    <<"{">> \o Quoted(W_sentence) \o <<":">> \o Quoted(s) \o <<",">>
            \o Quoted(W_label) \o <<":">> \o Quoted(w) \o <<"}">>

Fence == <<BackTick, BackTick, BackTick>>

\* the longest sentence list a caller passes
MaxSentences == 6

Letters == <<"a", "b", "c", "d", "e", "f", "g", "h">>

\* the sentence a caller puts at position i: a letter of its own, padded on
\* one side
SentenceAt(i) == IF i % 2 = 1 THEN <<" ", Letters[i]>> ELSE <<Letters[i], " ">>

\* the sentences a caller passes alone: blank and padded
SentenceInputs == {<<" ">>, SentenceAt(1), SentenceAt(2)}

RECURSIVE ListsUpTo(_, _)
ListsUpTo(S, n) ==
    IF n = 0 THEN {<<>>}
    ELSE LET shorter == ListsUpTo(S, n - 1)
         IN  shorter \cup {Append(l, x) : l \in {m \in shorter : Len(m) = n - 1}, x \in S}

\* the lists a caller passes: at each position its sentence or a blank one
SentenceLists ==
    UNION { { [i \in 1..n |-> IF i \in blanks THEN <<" ">> ELSE SentenceAt(i)] :
                  blanks \in SUBSET (1..n) } : n \in 0..MaxSentences }

\* the credentials a caller passes: empty, blank, one key padded and plain,
\* and another key
ApiKeys == {<<>>, <<" ">>, <<" ", "k", " ">>, <<"k">>, <<"q">>}

W_STOP == <<"S", "T", "O", "P">>

\* reply texts to a single-sentence prompt
SingleReplyTexts ==
    { Fence \o W_json \o <<"\n">> \o LabelObject(Quoted(W_happy)) \o <<"\n">> \o Fence,
      LabelObject(Quoted(W_joy)),
      Quoted(W_sad),
      W_blah \o <<" ">> \o LabelObject(Quoted(<<"F", "e", "a", "r">>)) \o <<" ">> \o W_joy,
      LabelObject(Quoted(W_constructor)),
      LabelObject(<<"1">>),
      W_love \o <<" ">> \o W_blah,
      <<>> }

\* reply texts to a batch prompt: four entries with their sentences
FourEntries ==
    <<"[">> \o Entry(<<"a">>, W_joy) \o <<",">> \o Entry(<<"b">>, W_sad) \o <<",">>
            \o Entry(<<"a">>, W_blah) \o <<",">> \o LabelObject(Quoted(W_angry)) \o <<"]">>

\* one entry: shorter than any chunk of two sentences or more
OneEntry == <<"[">> \o LabelObject(Quoted(W_happy)) \o <<"]">>

\* five entries: longer than any chunk
FiveEntries ==
    <<"[">> \o LabelObject(Quoted(W_fear)) \o <<",">> \o LabelObject(Quoted(W_love)) \o <<",">>
            \o LabelObject(Quoted(W_mad)) \o <<",">> \o LabelObject(Quoted(W_joy)) \o <<",">>
            \o LabelObject(Quoted(W_sad)) \o <<"]">>

\* a fenced array whose entries are a non-string label, null, a bare string
\* and an inherited property name
RaggedEntries ==
    Fence \o W_json \o <<"\n", "[">> \o LabelObject(<<"1">>) \o <<",">> \o W_null \o <<",">>
          \o Quoted(W_joy) \o <<",">> \o LabelObject(Quoted(W_constructor)) \o <<"]", "\n">> \o Fence

\* an array between commentary
ArrayInProse ==
    W_blah \o <<":", " ", "[">> \o LabelObject(Quoted(W_love)) \o <<",", "{", "}", "]", " ">> \o W_blah

\* two entries that name the sentences of the chunk in reverse order
SwappedEntries ==
    <<"[">> \o Entry(<<"b">>, W_joy) \o <<",">> \o Entry(<<"a">>, W_sad) \o <<"]">>

\* plain prose with no brackets
Prose == W_blah \o <<" ">> \o W_blah

\* an array cut off by the output limit
CutOff == <<"[">> \o LabelObject(Quoted(W_joy)) \o <<",", "{">>

SingleReplies ==
    {Reply(t, f) : t \in SingleReplyTexts, f \in {JsUndefined, JsString(W_STOP)}} \cup {UpstreamFailure}

BatchReplies ==
    { Reply(FourEntries, JsString(W_STOP)),
      Reply(OneEntry, JsString(W_STOP)),
      Reply(OneEntry, JsUndefined),
      Reply(FiveEntries, JsUndefined),
      Reply(RaggedEntries, JsString(W_STOP)),
      Reply(ArrayInProse, JsUndefined),
      Reply(SwappedEntries, JsString(W_STOP)),
      Reply(Prose, JsString(W_STOP)),
      Reply(CutOff, JsString(<<"M", "A", "X", "_", "T", "O", "K", "E", "N", "S">>)),
      Reply(LabelObject(Quoted(W_joy)), JsString(W_STOP)),
      UpstreamFailure }

----------------------------------------------------------------------------
(* Specification: calls made one after another *)

Next ==
    \E p \in SeqProcs :
        \/ \E s \in SentenceInputs \cup {<<>>}, k \in ApiKeys : classifyEmotion(p, s, k)
        \/ \E r \in SingleReplies : classifyEmotionResume(p, r)
        \/ \E ss \in SentenceLists, k \in ApiKeys : classifyEmotionBatch(p, ss, k)
        \/ \E r \in BatchReplies : classifyBatchChunkResume(p, r)
        \/ ReturnToCaller(p)

Spec == Init /\ [][Next]_vars

----------------------------------------------------------------------------
(* Specification: two invocations interleaved at their awaits *)

\* either invocation takes a step: callers do not await each other. One
\* sentence or a list of one or five, two credentials, a reply that is
\* classified and one that is not
NextInterleaved ==
    \E p \in Procs :
        \/ \E k \in {<<>>, <<"k">>, <<"q">>} : classifyEmotion(p, SentenceAt(1), k)
        \/ \E r \in {Reply(LabelObject(Quoted(W_joy)), JsString(W_STOP)), UpstreamFailure} :
               classifyEmotionResume(p, r)
        \/ \E n \in {1, 5}, k \in {<<"k">>, <<"q">>} :
               classifyEmotionBatch(p, [i \in 1..n |-> SentenceAt(i)], k)
        \/ \E r \in {Reply(FourEntries, JsString(W_STOP)), Reply(Prose, JsUndefined)} :
               classifyBatchChunkResume(p, r)
        \/ ReturnToCaller(p)

SpecInterleaved == Init /\ [][NextInterleaved]_vars

----------------------------------------------------------------------------
(* The page: its refs, the handlers of its events, and the continuations of
   the handlers after their awaits.  The file name, the notice under it and
   the chart are display state that no handler reads; they are left out. *)

MAX_EXCEL_SENTENCES == 10

\* the user types in the API-key field (v-model), and watch(apiKey) drops an
\* error whose text mentions the API key
editApiKey(k) ==
    /\ k # ui.apiKey
    /\ ui' = [ui EXCEPT !.apiKey = k,
                        !.error = IF ui.error \in {ERR_API_KEY,
                                                   "Please enter your Gemini API key."}
                                  THEN "null" ELSE ui.error]
    /\ UNCHANGED <<sysVars, fnVars>>

\* the user types in the textarea of the single-sentence form (v-model)
editSentence(s) ==
    /\ ui.activeMode = "single"
    /\ s # ui.sentence
    /\ ui' = [ui EXCEPT !.sentence = s]
    /\ UNCHANGED <<sysVars, fnVars>>

\* the user clicks the other mode's tab: activeMode changes and
\* watch(activeMode) runs resetStateForMode
switchMode(mode) ==
    /\ mode # ui.activeMode
    /\ ui' = [ui EXCEPT !.activeMode = mode,
                        !.error = "null",
                        !.predictions = <<>>,
                        !.excelSentences = IF mode = "single" THEN <<>> ELSE ui.excelSentences,
                        !.sentence = IF mode = "single" THEN ui.sentence ELSE <<>>]
    /\ UNCHANGED <<sysVars, fnVars>>

\* a submit handler that starts the analysis whatever loading and the key are
classifySingleUnguarded(p) ==
    /\ ui.activeMode = "single"
    /\ pc[p] = "idle" /\ \A q \in Procs : q < p => pc[q] # "idle"
    /\ ui' = [ui EXCEPT !.loading = TRUE, !.error = "null", !.predictions = <<>>]
    /\ ClassifyEmotionEntry(p, SingleArgs(Trim(ui.sentence), Trim(ui.apiKey)),
                            ensureModel(Trim(ui.apiKey), cachedKey, cachedModel))
    /\ UNCHANGED fnVars

\* the submit button of the single form is enabled (canSubmitSingle) and the
\* user submits: classifySingle up to its await, the classifier running in
\* the free frame p
classifySingle(p) ==
    /\ ui.activeMode = "single"
    /\ Trim(ui.sentence) # <<>> /\ ~ui.loading /\ Trim(ui.apiKey) # <<>>
    /\ pc[p] = "idle" /\ \A q \in Procs : q < p => pc[q] # "idle"
    /\ IF Trim(ui.sentence) = <<>> \/ ui.loading
       THEN UNCHANGED <<sysVars, ui>>
       ELSE IF Trim(ui.apiKey) = <<>>
       THEN /\ ui' = [ui EXCEPT !.error = "Please enter your Gemini API key."]
            /\ UNCHANGED sysVars
       ELSE /\ ui' = [ui EXCEPT !.loading = TRUE, !.error = "null", !.predictions = <<>>]
            /\ ClassifyEmotionEntry(p, SingleArgs(Trim(ui.sentence), Trim(ui.apiKey)),
                                    ensureModel(Trim(ui.apiKey), cachedKey, cachedModel))
    /\ UNCHANGED fnVars

\* the analyse button of the Excel panel is enabled (canSubmitExcel) and the
\* user clicks it: classifyExcel up to its await
classifyExcel(p) ==
    /\ ui.activeMode = "excel"
    /\ ui.excelSentences # <<>> /\ ~ui.loading /\ Trim(ui.apiKey) # <<>>
    /\ pc[p] = "idle" /\ \A q \in Procs : q < p => pc[q] # "idle"
    /\ IF ui.excelSentences = <<>> \/ ui.loading
       THEN UNCHANGED <<sysVars, ui>>
       ELSE IF Trim(ui.apiKey) = <<>>
       THEN /\ ui' = [ui EXCEPT !.error = "Please enter your Gemini API key."]
            /\ UNCHANGED sysVars
       ELSE /\ ui' = [ui EXCEPT !.loading = TRUE, !.error = "null", !.predictions = <<>>]
            /\ ClassifyEmotionBatchEntry(p, BatchArgs(ui.excelSentences, Trim(ui.apiKey)),
                                         ensureModel(Trim(ui.apiKey), cachedKey, cachedModel))
    /\ UNCHANGED fnVars

\* a continuation that stores the outcome and has no finally: after a
\* rejected call loading stays true
classifySettledWithoutFinally(p) ==
    /\ pc[p] = "done"
    /\ ui' = [ui EXCEPT
              !.predictions = IF outcome[p].status = "fulfilled" /\ outcome[p].value # <<>>
                              THEN outcome[p].value ELSE ui.predictions,
              !.error = IF outcome[p].status = "rejected" THEN outcome[p].error
                        ELSE ui.error,
              !.loading = outcome[p].status = "rejected"]
    /\ pc' = [pc EXCEPT ![p] = "idle"]
    /\ call' = [call EXCEPT ![p] = NoCall]
    /\ outcome' = [outcome EXCEPT ![p] = Pending]
    /\ requests' = [requests EXCEPT ![p] = <<>>]
    /\ UNCHANGED <<cachedKey, cachedModel, fnVars>>

\* classifySingle or classifyExcel after its await: the promise of frame p
\* has settled; try stores the results, catch stores the message, finally
\* resets loading
classifySettled(p) ==
    /\ pc[p] = "done"
    /\ ui' = [ui EXCEPT
              !.predictions = IF outcome[p].status = "fulfilled" /\ outcome[p].value # <<>>
                              THEN outcome[p].value ELSE ui.predictions,
              !.error = IF outcome[p].status = "rejected" THEN outcome[p].error
                        ELSE IF outcome[p].value = <<>>
                        THEN "No valid sentences found in the file."
                        ELSE ui.error,
              !.loading = FALSE]
    /\ pc' = [pc EXCEPT ![p] = "idle"]
    /\ call' = [call EXCEPT ![p] = NoCall]
    /\ outcome' = [outcome EXCEPT ![p] = Pending]
    /\ requests' = [requests EXCEPT ![p] = <<>>]
    /\ UNCHANGED <<cachedKey, cachedModel, fnVars>>

\* the cells of the sheets a user uploads: no text at all, one sentence, two
\* chunks of sentences, and more sentences than the page keeps
ExcelFiles ==
    { <<<<" ">>>>, <<SentenceAt(1), <<>>>>, [i \in 1..5 |-> SentenceAt(i)],
      [i \in 1..(MAX_EXCEL_SENTENCES + 1) |-> SentenceAt((i % 8) + 1)] }

\* the user picks a file in the Excel panel: handleExcelUpload up to its
\* await of file.arrayBuffer(); one file is read at a time
handleExcelUpload(file) ==
    /\ ui.activeMode = "excel"
    /\ ui.upload = <<>>
    /\ ui' = [ui EXCEPT !.error = "null", !.predictions = <<>>, !.upload = <<file>>]
    /\ UNCHANGED <<sysVars, fnVars>>

\* handleExcelUpload after its await: the non-empty trimmed cells, at most
\* MAX_EXCEL_SENTENCES of them, become excelSentences; a sheet without any is
\* an error
handleExcelUploadResume ==
    /\ ui.upload # <<>>
    /\ ui' = [ui EXCEPT
              !.upload = <<>>,
              !.excelSentences = Slice(CleanSentences(ui.upload[1]), 0, MAX_EXCEL_SENTENCES),
              !.error = IF CleanSentences(ui.upload[1]) = <<>>
                        THEN "No valid sentences found in the file."
                        ELSE ui.error]
    /\ UNCHANGED <<sysVars, fnVars>>

\* the page in use: events of the user, replies of the model, continuations
NextUI ==
    \/ \E k \in {<<>>, <<"k", " ">>} : editApiKey(k)
    \/ \E s \in {<<>>, SentenceAt(1)} : editSentence(s)
    \/ \E mode \in {"single", "excel"} : switchMode(mode)
    \/ \E p \in Procs : classifySingle(p)
    \/ \E p \in Procs : classifyExcel(p)
    \/ \E p \in Procs, r \in {Reply(LabelObject(Quoted(W_joy)), JsString(W_STOP)),
                              UpstreamFailure} : classifyEmotionResume(p, r)
    \/ \E p \in Procs, r \in {Reply(FourEntries, JsString(W_STOP)), Reply(Prose, JsUndefined),
                              UpstreamFailure} : classifyBatchChunkResume(p, r)
    \/ \E p \in Procs : classifySettled(p)
    \/ \E file \in ExcelFiles : handleExcelUpload(file)
    \/ handleExcelUploadResume

SpecUI == Init /\ [][NextUI]_vars

\* no generateContent call stays pending for ever (one that gets no reply
\* is rejected in the end), and every continuation runs
SpecUILive ==
    /\ SpecUI
    /\ WF_vars(\E p \in Procs : classifyEmotionResume(p, UpstreamFailure))
    /\ WF_vars(\E p \in Procs : classifyBatchChunkResume(p, UpstreamFailure))
    /\ WF_vars(\E p \in Procs : classifySettled(p))

----------------------------------------------------------------------------
(* Specification: the pure functions applied to inputs *)

\* the longest list handed to chunkSentences
MaxListLen == 6

\* the largest chunk size handed to chunkSentences
MaxChunkSize == 4

\* the longest text over SmallAlphabet
MaxTextLen == 3

SmallAlphabet == {BackTick, "\"", "{", "}", " ", "j", "1"}

RECURSIVE TextsUpTo(_, _)
TextsUpTo(A, n) ==
    IF n = 0 THEN {<<>>}
    ELSE TextsUpTo(A, n - 1)
             \cup {Append(t, c) : t \in {u \in TextsUpTo(A, n - 1) : Len(u) = n - 1}, c \in A}

ShortTexts == TextsUpTo(SmallAlphabet, MaxTextLen)

ToUpperCase(s) ==
    [i \in 1..Len(s) |->
        IF \E k \in 1..26 : LowerCaseLetters[k] = s[i]
        THEN UpperCaseLetters[CHOOSE k \in 1..26 : LowerCaseLetters[k] = s[i]]
        ELSE s[i]]

\* words a model may answer with: labels, synonyms, unknown words, property
\* names of Object.prototype
Words == LABELS \cup SynonymKeys \cup {W_blah, W_json, W_constructor, W_proto, W_toString}

\* the texts handed to normalizeLabel
LabelTexts ==
    {pad \o w \o tr : pad \in {<<>>, <<" ">>, <<"\n", "\t">>},
                      w \in Words \cup {ToUpperCase(x) : x \in Words},
                      tr \in {<<>>, <<" ">> \o W_blah, <<"\f">> \o W_joy, <<".">>}}
        \cup {<<>>, <<" ">>, <<"\n", " ">>}

\* a JSON object with a nested object before its label
NestedObject(w) ==
    <<"{">> \o Quoted(<<"x">>) \o <<":", "{">> \o Quoted(<<"y">>) \o <<":", "1", "}", ",">>
            \o Quoted(W_label) \o <<":">> \o Quoted(w) \o <<"}">>

\* what a reply says, before any commentary or fence is put around it
ReplyBodies ==
    { LabelObject(Quoted(W_happy)), LabelObject(Quoted(W_blah)), LabelObject(<<"1">>),
      LabelObject(W_null), LabelObject(Quoted(<<>>)),
      Quoted(W_sad), Quoted(<<>>), W_joy, W_joy \o <<"\n">> \o W_blah, W_null, <<"1", "2">>,
      NestedObject(W_love), OneEntry, <<"{", "}">>, <<"{">>,
      <<"]", " ", "[">>, <<"[", "1", "]", " ", "[", "2", "]">>,
      <<"{">> \o Quoted(W_label) \o <<":">> \o Quoted(W_fear),
      <<"{">> \o Quoted(W_label) \o <<":">> \o Quoted(W_joy) \o <<",">>
              \o Quoted(W_label) \o <<":">> \o Quoted(W_mad) \o <<"}">> }

\* fences around a text, with the newlines that set them apart
Fenced(t) == Fence \o <<"\n">> \o t \o <<"\n">> \o Fence

FencedJson(t) == Fence \o W_json \o <<"\n">> \o t \o <<"\n">> \o Fence

\* a reply body with commentary before and after it
Plain ==
    {lead \o body \o tail : lead \in {<<>>, W_blah \o <<" ">>, <<"{", " ">>, <<"\n">>},
                            body \in ReplyBodies,
                            tail \in {<<>>, <<" ">> \o W_blah, <<"}">>}}

\* the texts handed to the extractors
ReplyTexts ==
    Plain \cup ShortTexts
          \cup {Fenced(b) : b \in ReplyBodies}
          \cup {Fence \o ToUpperCase(W_json) \o b \o Fence : b \in ReplyBodies}
          \cup {FourEntries, FiveEntries, RaggedEntries, ArrayInProse, Prose, CutOff}

\* each behaviour applies one function to one input

ApplyNormalizeLabel(raw) ==
    /\ fnName = "none"
    /\ fnName' = "normalizeLabel"
    /\ fnArg' = raw
    /\ fnResult' = normalizeLabel(raw)
    /\ UNCHANGED <<sysVars, ui>>

\* the result is kept in a one-element tuple: a text, unlike a JS value, is a
\* bare sequence
ApplyExtractLabelCandidate(text) ==
    /\ fnName = "none"
    /\ fnName' = "extractLabelCandidate"
    /\ fnArg' = text
    /\ fnResult' = <<extractLabelCandidate(text)>>
    /\ UNCHANGED <<sysVars, ui>>

ApplyExtractBatchCandidates(text) ==
    /\ fnName = "none"
    /\ fnName' = "extractBatchCandidates"
    /\ fnArg' = text
    /\ fnResult' = extractBatchCandidates(text)
    /\ UNCHANGED <<sysVars, ui>>

ApplyChunkSentences(sentences, maxSize) ==
    /\ fnName = "none"
    /\ fnName' = "chunkSentences"
    /\ fnArg' = <<sentences, maxSize>>
    /\ fnResult' = chunkSentences(sentences, maxSize)
    /\ UNCHANGED <<sysVars, ui>>

NextFn ==
    \/ \E raw \in LabelTexts : ApplyNormalizeLabel(raw)
    \/ \E text \in ReplyTexts : ApplyExtractLabelCandidate(text)
    \/ \E text \in ReplyTexts : ApplyExtractBatchCandidates(text)
    \/ \E sentences \in ListsUpTo({<<"a">>, <<"b">>}, MaxListLen), maxSize \in 1..MaxChunkSize :
           ApplyChunkSentences(sentences, maxSize)

SpecFn == Init /\ [][NextFn]_vars

----------------------------------------------------------------------------
(* Vocabulary of the properties *)

\* a text that is empty after trimming
Blank(s) == \A i \in 1..Len(s) : s[i] \in WhiteSpace

NonBlank(s) == ~Blank(s)

\* the trimmed sentences of a list that are not empty, in the list's order
TrimmedNonEmpty(sentences) ==
    SelectSeq([i \in 1..Len(sentences) |-> Trim(sentences[i])], NonBlank)

CeilDiv(a, b) == (a + b - 1) \div b

RECURSIVE Flatten(_)
Flatten(seqs) == IF seqs = <<>> THEN <<>> ELSE Head(seqs) \o Flatten(Tail(seqs))

\* a request that has been answered with a reply text
AnsweredWithText(rq) == rq.reply # NoReply /\ ~rq.reply.failed

\* the first whitespace-delimited token of a text: its longest stretch of
\* non-whitespace characters that starts after its leading whitespace
FirstTokenOf(t) ==
    IF Blank(t) THEN <<>>
    ELSE LET from == CHOOSE i \in 1..Len(t) :
                        t[i] \notin WhiteSpace /\ \A j \in 1..(i - 1) : t[j] \in WhiteSpace
             to   == CHOOSE i \in from..Len(t) :
                        /\ \A j \in from..i : t[j] \notin WhiteSpace
                        /\ (i = Len(t) \/ t[i + 1] \in WhiteSpace)
         IN  SubSeq(t, from, to)

\* a canonical label, as the JS string a result carries
CanonicalLabel(x) == x.t = "string" /\ x.v \in LABELS

----------------------------------------------------------------------------
(* Properties of the batch call *)

\* C1: a classifyEmotionBatch call that succeeds returns one result per input
\* sentence that is non-empty after trimming, and result i carries the i-th
\* such trimmed sentence, wherever the chunk boundaries fall and whatever the
\* lengths of the reply arrays.
C1_BatchOutputMatchesInput ==
    \A p \in Procs :
        (call[p].fn = "classifyEmotionBatch" /\ outcome[p].status = "fulfilled")
            => /\ Len(outcome[p].value) = Len(TrimmedNonEmpty(call[p].sentences))
               /\ \A i \in 1..Len(outcome[p].value) :
                      outcome[p].value[i].sentence = TrimmedNonEmpty(call[p].sentences)[i]

\* a successful call on five sentences and a blank one, whose first reply array
\* is shorter and whose second is longer than its chunk
C1_Witness ==
    \E p \in Procs :
        /\ call[p].fn = "classifyEmotionBatch"
        /\ outcome[p].status = "fulfilled"
        /\ Len(call[p].sentences) = 6
        /\ \E i \in 1..3 : Blank(call[p].sentences[i])
        /\ Len(outcome[p].value) = 5
        /\ Len(requests[p]) = 2
        /\ requests[p][1].reply.text = OneEntry
        /\ requests[p][2].reply.text = FiveEntries

\* C3: when the reply to a chunk cannot be recovered as an array (plain prose
\* with no brackets, for one), the call is over and rejected with the
\* extraction error, it hands no result to the caller, and that chunk's
\* request is the last one the call issued.
C3_ExtractionFailureFailsCall ==
    \A p \in Procs :
        \A k \in 1..Len(requests[p]) :
            ( /\ call[p].fn = "classifyEmotionBatch"
              /\ AnsweredWithText(requests[p][k])
              /\ \/ ~IsArray(extractBatchCandidates(requests[p][k].reply.text))
                 \/ \A i \in 1..Len(requests[p][k].reply.text) :
                        requests[p][k].reply.text[i] \notin {"[", "]"} )
                => /\ pc[p] = "done"
                   /\ outcome[p].status = "rejected"
                   /\ outcome[p].error = ERR_BATCH_PARSE
                   /\ outcome[p].value = <<>>
                   /\ k = Len(requests[p])

\* the second chunk is answered in prose after the first was classified
C3_Witness ==
    \E p \in Procs :
        /\ Len(requests[p]) = 2
        /\ Len(call[p].aggregated) = MAX_BATCH_SIZE
        /\ requests[p][2].reply.text = Prose
        /\ outcome[p] = Rejected(ERR_BATCH_PARSE)

\* C4: when a chunk's reply parses to an array, the chunk yields a result for
\* every position, and a position whose entry is missing, is not an object or
\* has no string label field has predictedEmotion null.
C4_RaggedEntriesAreNull ==
    \A p \in Procs :
        \A k \in 1..Len(requests[p]) :
            ( /\ call[p].fn = "classifyEmotionBatch"
              /\ AnsweredWithText(requests[p][k])
              /\ IsArray(extractBatchCandidates(requests[p][k].reply.text)) )
                => LET entries == extractBatchCandidates(requests[p][k].reply.text).v
                       base    == (k - 1) * MAX_BATCH_SIZE
                   IN  /\ Len(call[p].aggregated) >= base + Len(requests[p][k].sentences)
                       /\ \A i \in 1..Len(requests[p][k].sentences) :
                              ( \/ i > Len(entries)
                                \/ entries[i].t # "object"
                                \/ GetProp(entries[i], W_label).t # "string" )
                                  => call[p].aggregated[base + i].predictedEmotion = JsNull

\* a chunk of four answered by one entry, and one answered by entries that are
\* null, a bare string and an object with a numeric label
C4_Witness ==
    \E p \in Procs :
        /\ Len(requests[p]) = 2
        /\ Len(requests[p][1].sentences) = MAX_BATCH_SIZE
        /\ requests[p][1].reply.text = RaggedEntries
        /\ requests[p][2].reply.text = OneEntry
        /\ Len(call[p].aggregated) = 5
        /\ call[p].aggregated[2].predictedEmotion = JsNull
        /\ outcome[p].status = "fulfilled"

\* C5: a call whose sentence is empty after trimming, whose list holds no
\* sentence that is non-empty after trimming, or whose credential is empty
\* after trimming is rejected, and issues no generateContent call.
C5_InvalidInputRejected ==
    \A p \in Procs :
        ( \/ call[p].fn = "classifyEmotion" /\ Blank(call[p].sentence)
          \/ call[p].fn = "classifyEmotionBatch"
                 /\ \A i \in 1..Len(call[p].sentences) : Blank(call[p].sentences[i])
          \/ call[p].fn # "none" /\ Blank(call[p].apiKey) )
            => /\ pc[p] = "done"
               /\ outcome[p].status = "rejected"
               /\ outcome[p].error \in {ERR_EMPTY_SENTENCE, ERR_NO_SENTENCES, ERR_API_KEY}
               /\ requests[p] = <<>>

\* a sentence with a credential of one space
C5_Witness ==
    \E p \in Procs :
        /\ call[p].fn = "classifyEmotion"
        /\ NonBlank(call[p].sentence)
        /\ call[p].apiKey = <<" ">>
        /\ outcome[p] = Rejected(ERR_API_KEY)
        /\ requests[p] = <<>>

\* C10: the cache holds nothing, or one key with the handle constructed from
\* that key; while and after a call that got past input validation, the key is
\* that call's trimmed credential.
C10_CacheHoldsOnePair ==
    /\ \/ cachedKey = JsNull /\ cachedModel = JsNull
       \/ cachedKey.t = "string" /\ cachedModel = GenerativeModel(cachedKey.v)
    /\ \A p \in SeqProcs :
           (pc[p] \in {"awaitSingle", "awaitChunk"} \/ (pc[p] = "done" /\ requests[p] # <<>>))
               => cachedKey = JsString(FirstTokenOf(call[p].apiKey))

\* a call with the padded credential is in flight
C10_Witness ==
    \E p \in SeqProcs :
        /\ pc[p] = "awaitChunk"
        /\ call[p].apiKey = <<" ", "k", " ">>
        /\ cachedKey = JsString(<<"k">>)
        /\ cachedModel = GenerativeModel(<<"k">>)
        /\ call[p].model = cachedModel

----------------------------------------------------------------------------
(* Properties of the pure functions *)

\* C2: chunkSentences(sentences, n) yields ceil(L/n) sublists, each non-empty
\* and of length at most n, all but the last of length n, whose concatenation
\* in yield order is the input list; a fresh call on the same input yields the
\* same sequence.
C2_ChunksPartition ==
    fnName = "chunkSentences"
        => /\ Len(fnResult) = CeilDiv(Len(fnArg[1]), fnArg[2])
           /\ \A i \in 1..Len(fnResult) :
                  /\ Len(fnResult[i]) >= 1
                  /\ Len(fnResult[i]) <= fnArg[2]
                  /\ i < Len(fnResult) => Len(fnResult[i]) = fnArg[2]
           /\ Flatten(fnResult) = fnArg[1]
           /\ chunkSentences(fnArg[1], fnArg[2]) = fnResult

\* five sentences in chunks of two: the last chunk is shorter
C2_Witness ==
    /\ fnName = "chunkSentences"
    /\ Len(fnArg[1]) = 5
    /\ fnArg[2] = 2
    /\ Len(fnResult) = 3
    /\ Len(fnResult[3]) = 1

\* C6: normalizeLabel maps every key of the synonym table to the label the
\* table gives it and every canonical label to itself, and a result that is a
\* canonical label is a fixed point.
C6_SynonymsAndLabels ==
    fnName = "normalizeLabel"
        => /\ \A e \in LABEL_SYNONYMS : fnArg = e[1] => fnResult = JsString(e[2])
           /\ fnArg \in LABELS => fnResult = JsString(fnArg)
           /\ CanonicalLabel(fnResult) => normalizeLabel(fnResult.v) = fnResult

\* a canonical label that is no key of the synonym table
C6_Witness ==
    /\ fnName = "normalizeLabel"
    /\ fnArg = W_joy
    /\ fnArg \notin SynonymKeys
    /\ fnResult = JsString(W_joy)

\* C7: normalizeLabel returns a canonical label or null, and null for every
\* text whose first token, lowercased, is neither a canonical label nor a key
\* of the synonym table.
C7_LabelOrNull ==
    fnName = "normalizeLabel"
        => /\ fnResult = JsNull \/ CanonicalLabel(fnResult)
           /\ FirstTokenOf(ToLowerCase(fnArg)) \notin (LABELS \cup SynonymKeys)
                  => fnResult = JsNull

\* C8: extractLabelCandidate gives a text wrapped in code fences, with or
\* without the json tag, the label text it gives the text itself.
C8_FencesAreTransparent ==
    fnName = "extractLabelCandidate"
        => /\ extractLabelCandidate(Fenced(fnArg)) = fnResult[1]
           /\ extractLabelCandidate(FencedJson(fnArg)) = fnResult[1]

\* the reply object, whose label is recovered with and without fences
C8_Witness ==
    /\ fnName = "extractLabelCandidate"
    /\ fnArg = LabelObject(Quoted(W_happy))
    /\ fnResult[1] = W_happy
    /\ extractLabelCandidate(FencedJson(fnArg)) = W_happy

\* whether a parsed value gives a string label: it is a string, or an object
\* whose label field is a string
GivesStringLabel(x) == x.t = "string" \/ (x.t = "object" /\ GetProp(x, W_label).t = "string")

\* C9: extractLabelCandidate returns a text, and when the stripped text gives
\* no string label, parsed as a whole or through its first brace match, that
\* text is the first whitespace-delimited token of the stripped text.
C9_FallsBackToFirstToken ==
    fnName = "extractLabelCandidate"
        => /\ fnResult[1] \in Seq(STRING)
           /\ ( /\ ~GivesStringLabel(tryParseJson(sanitizeModelText(fnArg)))
                /\ ~(tryParseJson(FirstBraceMatch(sanitizeModelText(fnArg))).t = "object"
                       /\ GivesStringLabel(tryParseJson(FirstBraceMatch(sanitizeModelText(fnArg))))) )
                  => fnResult[1] = FirstTokenOf(RemoveFences(fnArg, 1))

\* prose in two lines: the token is cut at the line break
C9_Witness ==
    /\ fnName = "extractLabelCandidate"
    /\ fnArg = <<"\n">> \o W_joy \o <<"\n">> \o W_blah \o <<" ">> \o W_blah
    /\ fnResult[1] = W_joy

----------------------------------------------------------------------------
(* Properties of the dispatch of model calls *)

\* how many sentence groups a call has: one for classifyEmotion, one per
\* MAX_BATCH_SIZE cleaned sentences for classifyEmotionBatch
GroupCount(c) ==
    IF c.fn = "classifyEmotion" THEN 1
    ELSE CeilDiv(Len(TrimmedNonEmpty(c.sentences)), MAX_BATCH_SIZE)

\* the k-th group of MAX_BATCH_SIZE among the cleaned sentences of a batch call
GroupOf(c, k) ==
    SubSeq(TrimmedNonEmpty(c.sentences), MAX_BATCH_SIZE * (k - 1) + 1,
           IF MAX_BATCH_SIZE * k <= Len(TrimmedNonEmpty(c.sentences))
           THEN MAX_BATCH_SIZE * k
           ELSE Len(TrimmedNonEmpty(c.sentences)))

\* C11: a call invokes generateContent at most once per sentence group, and
\* when an invocation fails the call is over, rejected with the error of that
\* invocation, and that invocation is the last one the call made.
C11_NoRetries ==
    \A p \in Procs :
        call[p].fn # "none"
            => /\ Len(requests[p]) <= GroupCount(call[p])
               /\ \A j, k \in 1..Len(requests[p]) :
                      j # k => requests[p][j].sentences # requests[p][k].sentences
               /\ \A k \in 1..Len(requests[p]) :
                      requests[p][k].reply.failed
                          => /\ pc[p] = "done"
                             /\ outcome[p] = Rejected(ERR_UPSTREAM)
                             /\ k = Len(requests[p])

\* the second chunk's invocation fails after the first chunk was classified
C11_Witness ==
    \E p \in Procs :
        /\ call[p].fn = "classifyEmotionBatch"
        /\ Len(requests[p]) = 2
        /\ AnsweredWithText(requests[p][1])
        /\ requests[p][2].reply.failed
        /\ outcome[p] = Rejected(ERR_UPSTREAM)

\* C12: in a classifyEmotionBatch call the k-th model call carries the k-th
\* group of at most MAX_BATCH_SIZE cleaned sentences, and is issued only once
\* every earlier call is answered and its results are pushed, so that only the
\* last call can be in flight; a call that succeeds on L cleaned sentences has
\* issued ceil(L / MAX_BATCH_SIZE) model calls.
C12_ChunksInSequence ==
    \A p \in Procs :
        call[p].fn = "classifyEmotionBatch"
            => /\ \A k \in 1..Len(requests[p]) :
                      /\ requests[p][k].sentences = GroupOf(call[p], k)
                      /\ Len(requests[p][k].sentences) <= MAX_BATCH_SIZE
                      /\ k < Len(requests[p]) => AnsweredWithText(requests[p][k])
               /\ requests[p] # <<>>
                      => Len(call[p].aggregated) >= MAX_BATCH_SIZE * (Len(requests[p]) - 1)
               /\ outcome[p].status = "fulfilled"
                      => Len(requests[p]) =
                             CeilDiv(Len(TrimmedNonEmpty(call[p].sentences)), MAX_BATCH_SIZE)

\* the second of two chunks is in flight, the first one's results are pushed
C12_Witness ==
    \E p \in Procs :
        /\ pc[p] = "awaitChunk"
        /\ Len(TrimmedNonEmpty(call[p].sentences)) = 6
        /\ Len(requests[p]) = 2
        /\ requests[p][2].reply = NoReply
        /\ Len(requests[p][2].sentences) = 2
        /\ Len(call[p].aggregated) = MAX_BATCH_SIZE

\* C13: the result of classifyEmotion carries the finishReason (null when the
\* reply has none) and the text of its reply, and each result of a chunk of
\* classifyEmotionBatch carries those of the reply to that chunk.
C13_DiagnosticsPassThrough ==
    \A p \in Procs :
        /\ (call[p].fn = "classifyEmotion" /\ outcome[p].status = "fulfilled")
               => /\ outcome[p].value[1].rawResponse = requests[p][1].reply.text
                  /\ outcome[p].value[1].doneReason =
                         (IF requests[p][1].reply.finishReason = JsUndefined
                          THEN JsNull ELSE requests[p][1].reply.finishReason)
        /\ call[p].fn = "classifyEmotionBatch"
               => \A i \in 1..Len(call[p].aggregated) :
                      /\ call[p].aggregated[i].rawResponse =
                             requests[p][CeilDiv(i, MAX_BATCH_SIZE)].reply.text
                      /\ call[p].aggregated[i].doneReason =
                             (IF requests[p][CeilDiv(i, MAX_BATCH_SIZE)].reply.finishReason
                                     = JsUndefined
                              THEN JsNull
                              ELSE requests[p][CeilDiv(i, MAX_BATCH_SIZE)].reply.finishReason)
        /\ (call[p].fn = "classifyEmotionBatch" /\ outcome[p].status = "fulfilled")
               => outcome[p].value = call[p].aggregated

\* two chunks answered by different texts, one with and one without a
\* finishReason
C13_Witness ==
    \E p \in Procs :
        /\ outcome[p].status = "fulfilled"
        /\ Len(outcome[p].value) = 5
        /\ Len(requests[p]) = 2
        /\ requests[p][1].reply = Reply(FourEntries, JsString(W_STOP))
        /\ requests[p][2].reply = Reply(OneEntry, JsUndefined)
        /\ outcome[p].value[4].doneReason = JsString(W_STOP)
        /\ outcome[p].value[5].doneReason = JsNull
        /\ outcome[p].value[5].rawResponse = OneEntry

\* C14: classifyEmotion on a sentence and a credential that are non-empty
\* after trimming issues one model call, and when that call is answered it
\* returns one result with the trimmed sentence and with predictedEmotion
\* normalizeLabel(extractLabelCandidate(reply text)): joy for the reply
\* {"label": "happy"} in a json code fence.
C14_SingleCall ==
    \A p \in Procs :
        (call[p].fn = "classifyEmotion" /\ NonBlank(call[p].sentence) /\ NonBlank(call[p].apiKey))
            => /\ Len(requests[p]) = 1
               /\ AnsweredWithText(requests[p][1])
                      => /\ outcome[p].status = "fulfilled"
                         /\ Len(outcome[p].value) = 1
                         /\ outcome[p].value[1].sentence = Trim(call[p].sentence)
                         /\ outcome[p].value[1].predictedEmotion =
                                normalizeLabel(extractLabelCandidate(requests[p][1].reply.text))
                         /\ requests[p][1].reply.text = FencedJson(LabelObject(Quoted(W_happy)))
                                => outcome[p].value[1].predictedEmotion = JsString(W_joy)

\* the fenced reply to a padded sentence
C14_Witness ==
    \E p \in Procs :
        /\ call[p].fn = "classifyEmotion"
        /\ call[p].sentence = <<" ", "a">>
        /\ Len(requests[p]) = 1
        /\ requests[p][1].reply.text = FencedJson(LabelObject(Quoted(W_happy)))
        /\ outcome[p].status = "fulfilled"
        /\ outcome[p].value[1].sentence = <<"a">>
        /\ outcome[p].value[1].predictedEmotion = JsString(W_joy)

----------------------------------------------------------------------------
(* Properties of label recognition *)

\* the words normalizeLabel is to recognize
Recognized == LABELS \cup SynonymKeys

\* the canonical label of a recognized word
LabelFor(w) ==
    IF w \in LABELS THEN w ELSE (CHOOSE e \in LABEL_SYNONYMS : e[1] = w)[2]

\* what a label text is to normalize to: the label of its first token,
\* lowercased, or null
ExpectedLabel(text) ==
    IF FirstTokenOf(ToLowerCase(text)) \in Recognized
    THEN JsString(LabelFor(FirstTokenOf(ToLowerCase(text))))
    ELSE JsNull

\* C15: in a chunk whose reply is an array, a position whose entry has a
\* string label that is neither a canonical label nor a synonym gets
\* predictedEmotion null and every other position with a string label gets the
\* label of its own entry; the call does not fail on it, and the next chunk,
\* when there is one, is dispatched.
C15_UnrecognizedLabelIsNull ==
    \A p \in Procs :
        \A k \in 1..Len(requests[p]) :
            ( /\ call[p].fn = "classifyEmotionBatch"
              /\ AnsweredWithText(requests[p][k])
              /\ IsArray(extractBatchCandidates(requests[p][k].reply.text)) )
                => /\ outcome[p].status # "rejected" \/ k < Len(requests[p])
                   /\ k < GroupCount(call[p]) => Len(requests[p]) > k
                   /\ \A i \in 1..Len(requests[p][k].sentences) :
                          ( /\ i <= Len(extractBatchCandidates(requests[p][k].reply.text).v)
                            /\ GivesStringLabel(
                                   extractBatchCandidates(requests[p][k].reply.text).v[i])
                            /\ extractBatchCandidates(requests[p][k].reply.text).v[i].t = "object" )
                              => call[p].aggregated[MAX_BATCH_SIZE * (k - 1) + i].predictedEmotion
                                     = ExpectedLabel(GetProp(
                                         extractBatchCandidates(requests[p][k].reply.text).v[i],
                                         W_label).v)

\* C16: normalizeLabel of a text whose first whitespace-delimited token,
\* lowercased, is a canonical label or a synonym is the canonical label of
\* that token, whatever the letter case, the whitespace around it and the
\* words after it.
C16_FirstTokenDecides ==
    (fnName = "normalizeLabel" /\ FirstTokenOf(ToLowerCase(fnArg)) \in Recognized)
        => fnResult = JsString(LabelFor(FirstTokenOf(ToLowerCase(fnArg))))

\* a synonym in capitals, after whitespace and before another word
C16_Witness ==
    /\ fnName = "normalizeLabel"
    /\ fnArg = <<"\n", "\t", "H", "A", "P", "P", "Y", " ">> \o W_blah
    /\ fnResult = JsString(W_joy)

\* the punctuation that may follow a label
Punctuation == {".", "!", ",", ";", "?"}

\* C17: normalizeLabel of a canonical label or synonym immediately followed by
\* punctuation is the canonical label of that word.
C17_TrailingPunctuation ==
    ( /\ fnName = "normalizeLabel"
      /\ Len(fnArg) > 1
      /\ SubSeq(fnArg, 1, Len(fnArg) - 1) \in Recognized
      /\ fnArg[Len(fnArg)] \in Punctuation )
        => fnResult = JsString(LabelFor(SubSeq(fnArg, 1, Len(fnArg) - 1)))

----------------------------------------------------------------------------
(* Properties of the extractors *)

\* C18: when the stripped text is valid JSON, extractLabelCandidate returns
\* the parsed value when it is a string and the label field when the parsed
\* value is an object whose label field is a string, whatever the brace scan
\* and the first token would give.
C18_DirectParseFirst ==
    (fnName = "extractLabelCandidate" /\ JsonParse(sanitizeModelText(fnArg)).ok)
        => /\ JsonParse(sanitizeModelText(fnArg)).val.t = "string"
                  => fnResult[1] = JsonParse(sanitizeModelText(fnArg)).val.v
           /\ ( /\ JsonParse(sanitizeModelText(fnArg)).val.t = "object"
                /\ GetProp(JsonParse(sanitizeModelText(fnArg)).val, W_label).t = "string" )
                  => fnResult[1] = GetProp(JsonParse(sanitizeModelText(fnArg)).val, W_label).v

\* an object with a nested object before its label: its first brace match is
\* no JSON and its first token is the whole text
C18_Witness ==
    /\ fnName = "extractLabelCandidate"
    /\ fnArg = NestedObject(W_love)
    /\ fnResult[1] = W_love
    /\ ~JsonParse(FirstBraceMatch(fnArg)).ok
    /\ FirstTokenOf(fnArg) # W_love

\* objects that carry a string label, with that label: flat, and with a
\* nested object before the label
LabelledObjects ==
    { <<LabelObject(Quoted(W_happy)), W_happy>>,
      <<LabelObject(Quoted(W_blah)), W_blah>>,
      <<NestedObject(W_love), W_love>> }

\* C19: when the stripped text is not valid JSON as a whole and holds, between
\* commentary, a JSON object with a string label field, extractLabelCandidate
\* returns that label, also when the object holds a nested object or the
\* commentary before it holds a brace.
C19_EmbeddedObjectRecovered ==
    (fnName = "extractLabelCandidate" /\ ~JsonParse(sanitizeModelText(fnArg)).ok)
        => \A o \in LabelledObjects :
               \A lead \in {<<>>, W_blah \o <<" ">>, <<"{", " ">>, <<"\n">>},
                  tail \in {<<>>, <<" ">> \o W_blah} :
                   fnArg = lead \o o[1] \o tail => fnResult[1] = o[2]

\* the first "[" and the last "]" of a text, 0 when there is none
FirstOpen(t) ==
    IF \E i \in 1..Len(t) : t[i] = "["
    THEN CHOOSE i \in 1..Len(t) : t[i] = "[" /\ \A j \in 1..(i - 1) : t[j] # "["
    ELSE 0

LastClose(t) ==
    IF \E i \in 1..Len(t) : t[i] = "]"
    THEN CHOOSE i \in 1..Len(t) : t[i] = "]" /\ \A j \in (i + 1)..Len(t) : t[j] # "]"
    ELSE 0

ParsesToArray(t) == JsonParse(t).ok /\ JsonParse(t).val.t = "array"

\* what extractBatchCandidates is to return for a stripped text
ExpectedCandidates(t) ==
    IF ParsesToArray(t) THEN JsonParse(t).val
    ELSE IF FirstOpen(t) # 0 /\ LastClose(t) > FirstOpen(t)
            /\ ParsesToArray(SubSeq(t, FirstOpen(t), LastClose(t)))
    THEN JsonParse(SubSeq(t, FirstOpen(t), LastClose(t))).val
    ELSE JsNull

\* C20: extractBatchCandidates returns the array the stripped text parses to,
\* or else the array its substring from the first "[" to the last "]" parses
\* to, and null in every other case.
C20_ArrayOrNull ==
    fnName = "extractBatchCandidates"
        => /\ fnResult = ExpectedCandidates(sanitizeModelText(fnArg))
           /\ fnResult = JsNull \/ fnResult.t = "array"

\* an array between commentary, recovered from the slice
C20_Witness ==
    /\ fnName = "extractBatchCandidates"
    /\ fnArg = ArrayInProse
    /\ ~JsonParse(sanitizeModelText(fnArg)).ok
    /\ fnResult.t = "array"
    /\ Len(fnResult.v) = 2

----------------------------------------------------------------------------
(* Properties of the handle cache over calls *)

\* C21: a call that gets past input validation constructs a handle exactly
\* when the cache is empty or holds another key than its trimmed credential,
\* and the new handle is then cached under that credential; otherwise it
\* works with the cached handle and leaves the cache as it is. Credentials
\* that differ in surrounding whitespace only are the same key.
C21_ConstructedWhenNeeded ==
    [][ \A p \in SeqProcs :
            (pc[p] = "idle" /\ pc'[p] \in {"awaitSingle", "awaitChunk"})
                => /\ call'[p].constructed
                          <=> (cachedModel = JsNull
                                 \/ cachedKey # JsString(FirstTokenOf(call'[p].apiKey)))
                   /\ call'[p].constructed
                          => /\ cachedKey' = JsString(FirstTokenOf(call'[p].apiKey))
                             /\ cachedModel' = GenerativeModel(FirstTokenOf(call'[p].apiKey))
                             /\ call'[p].model = cachedModel'
                   /\ ~call'[p].constructed
                          => /\ call'[p].model = cachedModel
                             /\ UNCHANGED <<cachedKey, cachedModel>> ]_vars

\* a call with the padded credential works with the handle an earlier call
\* left in the cache
C21_Witness ==
    \E p \in SeqProcs :
        /\ pc[p] = "awaitSingle"
        /\ call[p].apiKey = <<" ", "k", " ">>
        /\ ~call[p].constructed
        /\ call[p].model = GenerativeModel(<<"k">>)
        /\ cachedKey = JsString(<<"k">>)

\* C22: when invocations interleave at their awaits, every model call of an
\* invocation, each chunk of a batch included, goes through the handle
\* constructed for the invocation's own trimmed credential, whatever the
\* cache holds by then.
C22_OwnHandleThroughout ==
    \A p \in Procs :
        \A k \in 1..Len(requests[p]) :
            requests[p][k].model = GenerativeModel(Trim(call[p].apiKey))

\* a batch issued its second chunk after another invocation with another
\* credential replaced the cached handle
C22_Witness ==
    /\ pc[1] = "awaitChunk"
    /\ call[1].apiKey = <<"k">>
    /\ Len(requests[1]) = 2
    /\ requests[1][2].model = GenerativeModel(<<"k">>)
    /\ pc[2] \in {"awaitSingle", "awaitChunk"}
    /\ call[2].apiKey = <<"q">>
    /\ call[2].constructed
    /\ cachedKey = JsString(<<"q">>)
    /\ requests[2][1].model = GenerativeModel(<<"q">>)

\* the input of a call is invalid: no sentence or no credential is left after
\* trimming
InvalidInput(c) ==
    \/ c.fn = "classifyEmotion" /\ Blank(c.sentence)
    \/ c.fn = "classifyEmotionBatch" /\ \A i \in 1..Len(c.sentences) : Blank(c.sentences[i])
    \/ Blank(c.apiKey)

\* C23: a call with invalid input is rejected in the step that makes it and
\* leaves cachedKey and cachedModel as they were; when neither a sentence nor
\* a credential is left after trimming the error is the one about the
\* sentence.
C23_InvalidCallKeepsCache ==
    [][ \A p \in SeqProcs :
            (pc[p] = "idle" /\ pc'[p] # "idle" /\ InvalidInput(call'[p]))
                => /\ pc'[p] = "done"
                   /\ outcome'[p].status = "rejected"
                   /\ UNCHANGED <<cachedKey, cachedModel>>
                   /\ (call'[p].fn = "classifyEmotion" /\ Blank(call'[p].sentence))
                          => outcome'[p].error = ERR_EMPTY_SENTENCE
                   /\ ( /\ call'[p].fn = "classifyEmotionBatch"
                        /\ \A i \in 1..Len(call'[p].sentences) : Blank(call'[p].sentences[i]) )
                          => outcome'[p].error = ERR_NO_SENTENCES ]_vars

\* a call with a blank sentence and an empty credential is rejected while the
\* cache holds the handle of an earlier call
C23_Witness ==
    \E p \in SeqProcs :
        /\ call[p].fn = "classifyEmotion"
        /\ call[p].sentence = <<" ">>
        /\ call[p].apiKey = <<>>
        /\ outcome[p] = Rejected(ERR_EMPTY_SENTENCE)
        /\ cachedKey = JsString(<<"q">>)
        /\ cachedModel = GenerativeModel(<<"q">>)

----------------------------------------------------------------------------
(* Properties of the pairing of sentences and labels *)

\* the label text at position i of a reply array: the string label of entry
\* i, or the empty text
PositionLabel(entries, i) ==
    IF i <= Len(entries) /\ entries[i].t = "object" /\ GetProp(entries[i], W_label).t = "string"
    THEN GetProp(entries[i], W_label).v
    ELSE <<>>

\* C24: result i of a chunk has the caller's i-th trimmed sentence of the chunk
\* as its sentence, and as its label the normalized label of entry i of the
\* reply array, whatever sentence that entry or any other entry names.
C24_LabelsByPosition ==
    \A p \in Procs :
        \A k \in 1..Len(requests[p]) :
            ( /\ call[p].fn = "classifyEmotionBatch"
              /\ AnsweredWithText(requests[p][k])
              /\ IsArray(extractBatchCandidates(requests[p][k].reply.text)) )
                => \A i \in 1..Len(GroupOf(call[p], k)) :
                       /\ call[p].aggregated[MAX_BATCH_SIZE * (k - 1) + i].sentence
                              = GroupOf(call[p], k)[i]
                       /\ call[p].aggregated[MAX_BATCH_SIZE * (k - 1) + i].predictedEmotion
                              = normalizeLabel(PositionLabel(
                                    extractBatchCandidates(requests[p][k].reply.text).v, i))

\* the reply names sentence b first and a second: the label of its first
\* entry goes to sentence a
C24_Witness ==
    \E p \in Procs :
        /\ outcome[p].status = "fulfilled"
        /\ Len(requests[p]) = 1
        /\ requests[p][1].reply.text = SwappedEntries
        /\ Len(outcome[p].value) = 2
        /\ outcome[p].value[1].sentence = <<"a">>
        /\ outcome[p].value[1].predictedEmotion = JsString(W_joy)
        /\ outcome[p].value[2].sentence = <<"b">>
        /\ outcome[p].value[2].predictedEmotion = JsString(W_sadness)
----------------------------------------------------------------------------
(* C25 *)

\* frame p holds an analysis the page has started and not yet taken back
InFlight(p) == pc[p] # "idle"

\* C25: the page never has two analyses in flight: at most one classifier
\* call exists at a time, loading is true for as long as it exists, and it
\* was started with a non-empty trimmed API key, whatever submits, mode
\* switches, key edits and uploads happen meanwhile.
C25_OneAnalysisInFlight ==
    /\ \A p, q \in Procs : InFlight(p) /\ InFlight(q) => p = q
    /\ \A p \in Procs : InFlight(p) => ui.loading /\ Trim(call[p].apiKey) # <<>>

\* an analysis started in single mode awaits the model while the user has
\* switched to the Excel panel and a file is being read
C25_Witness ==
    /\ pc[1] = "awaitSingle"
    /\ ui.loading
    /\ ui.activeMode = "excel"
    /\ ui.upload # <<>>
----------------------------------------------------------------------------
(* C26 *)

\* C26: loading is true exactly while an analysis is between its start and
\* its completion, and, the model answering every request, every analysis
\* ends with loading false again, whether the classifier call was fulfilled
\* or rejected.
C26_LoadingEndsWithAnalysis ==
    /\ [](ui.loading <=> \E p \in Procs : InFlight(p))
    /\ (ui.loading ~> ~ui.loading)

\* an analysis was started, the model call failed, and the page shows the
\* failure with loading false
C26_Witness ==
    /\ ~ui.loading
    /\ ui.error = ERR_UPSTREAM
    /\ \A p \in Procs : ~InFlight(p)
----------------------------------------------------------------------------
(* C27 *)

\* C27: whenever loading is false, error and predictions are not both
\* populated: error is null or predictions is empty.
C27_ErrorOrPredictions ==
    ~ui.loading => (ui.error = "null" \/ ui.predictions = <<>>)
----------------------------------------------------------------------------
(* C28 *)

\* C28: a result is stored into predictions only in the mode its analysis
\* was started in: results of classifyEmotion (started by the single form)
\* are stored while activeMode is single, results of classifyEmotionBatch
\* (started from the Excel panel) while it is excel, so that after a switch
\* predictions stays empty until an analysis of the new mode completes.
C28_NoResultFromPreviousMode ==
    [][\A p \in Procs :
          (pc[p] = "done" /\ pc'[p] = "idle" /\ ui'.predictions # <<>>)
              => (call[p].fn = "classifyEmotion" <=> ui'.activeMode = "single")]_vars

====
